---- MODULE Spec2Model ----
(***************************************************************************)
(* Skill store, skill tools and sandboxed execution engine of the          *)
(* ms-365-mcp-server, as state machines.                                   *)
(*                                                                         *)
(* The store part follows SkillStorage (one JSON file per skill) and the   *)
(* tool handlers of registerSkillTools.  A handler is an async function:   *)
(* between two awaited file operations any other handler may run, so each  *)
(* awaited file operation is one step of the handler's process.            *)
(***************************************************************************)
EXTENDS Integers, Sequences, FiniteSets, TLC

\* ------------------------------------------------------------------ bounds

\* Tool invocations started in one behaviour.
MaxOps == 2

\* Identifiers in use: 1 is the seeded built-in skill, 2 a skill of an
\* earlier session, the rest are handed out by randomUUID in order.
MaxIds == 3
BuiltinId == 1
OldId == 2
IdSpace == 1..MaxIds

\* Concurrent request handlers of the one server process; an invocation
\* takes the first free one.
Procs == 1..2

BuiltinName == "summarizeTodaysEmails"

\* Calls of executeM365Code in one behaviour.
MaxInvs == 2

\* Milliseconds the clock of new Date() advances in one behaviour.
MaxTime == 2

\* The built-in skill definitions modelled, of the six of BUILTIN_SKILLS.
MaxBuiltins == 2

\* Timeout values tried, in steps of 2500 ms.
MaxSteps == 50

\* Pieces a script text handed to validateCode is put together from.
MaxFragments == 2

\* Items in the value array of one page of a response.
MaxPageItems == 1

\* ------------------------------------------------------------ code texts

\* A script text is a sequence of characters; the state holds its key.
CodeText(c) ==
    CASE c = "ret"   -> <<"r","e","t","u","r","n"," ","1">>
      [] c = "ret2"  -> <<"r","e","t","u","r","n"," ","2">>
      [] c = "Eval"  -> <<"E","v","a","l","(","x",")">>
      [] c = "evil"  -> <<"e","v","a","l","(","x",")">>
      [] c = "exit"  -> <<"p","r","o","c","e","s","s",".","e","x","i","t","(",")">>
      [] c = "empty" -> <<>>
      [] OTHER       -> <<>>


forbidden ==
    << <<"e","v","a","l","(">>,
       <<"F","u","n","c","t","i","o","n","(">>,
       <<"r","e","q","u","i","r","e","(">>,
       <<"i","m","p","o","r","t","(">>,
       <<"_","_","d","i","r","n","a","m","e">>,
       <<"_","_","f","i","l","e","n","a","m","e">>,
       <<"p","r","o","c","e","s","s",".","e","x","i","t">>,
       <<"c","h","i","l","d","_","p","r","o","c","e","s","s">> >>

\* String.prototype.includes
includes(text, pat) ==
    \E i \in 1..(Len(text) - Len(pat) + 1) :
        SubSeq(text, i, i + Len(pat) - 1) = pat

\* SkillStorage.validateCode on a text: errors holds, in the order of the
\* loop, the index k for the message that names forbidden[k].
validateTextFirstOnly(code) ==
    LET found == SelectSeq([k \in 1..Len(forbidden) |-> k],
                           LAMBDA k : includes(code, forbidden[k]))
        errors == IF found = <<>> THEN <<>> ELSE <<Head(found)>>
    IN [valid |-> Len(errors) = 0, errors |-> errors]

validateText(code) ==
    LET errors == SelectSeq([k \in 1..Len(forbidden) |-> k],
                            LAMBDA k : includes(code, forbidden[k]))
    IN [valid |-> Len(errors) = 0, errors |-> errors]

\* SkillStorage.validateCode: the indexes of the patterns found.
validateErrorsSkipFirst(c) ==
    { k \in 2..Len(forbidden) : includes(CodeText(c), forbidden[k]) }

validateErrors(c) ==
    LET errors == validateText(CodeText(c)).errors
    IN { errors[i] : i \in 1..Len(errors) }

validateCode(c) == [valid |-> validateErrors(c) = {}, errors |-> validateErrors(c)]

\* JavaScript truthiness of a string.
truthy(c) == CodeText(c) # <<>>

\* ------------------------------------------------------------------ files

\* An identifier as the string callers pass and files are named by.
IdString(i) == <<"id1", "id2", "id3", "id4", "id5">>[i]

Absent == [kind |-> "absent"]
\* A file that was opened for writing and not (yet) written: no JSON document.
Partial == [kind |-> "partial"]

\* A skill document as JSON.parse reads it from a file; the records of the
\* earlier sessions were described "d", in category general, at time 0.
Doc(id, name, code, usage, builtin) ==
    [kind |-> "doc", id |-> id, name |-> name, description |-> "d",
     category |-> "general", code |-> code, createdAt |-> 0, updatedAt |-> 0,
     usageCount |-> usage, isBuiltin |-> builtin]

\* No identifier: skill.id is undefined.
NoId == 0

\* obj[k] = v on a JavaScript object.
Put(r, k, v) == [x \in DOMAIN r \cup {k} |-> IF x = k THEN v ELSE r[x]]

\* obj without the key k.
Without(r, k) == [x \in DOMAIN r \ {k} |-> r[x]]

\* obj[k] read from a JavaScript object: undefined when it has no such key.
Field(r, k) == IF k \in DOMAIN r THEN r[k] ELSE "undefined"

\* The keys JSON.stringify leaves out: those whose value is undefined.
OptionalKeys == {"tags"}

\* JSON.stringify of an object: the text, as its key/value pairs.
JSONstringifyRequired(r) ==
    { <<k, r[k]>> : k \in DOMAIN r \ OptionalKeys }

JSONstringify(r) ==
    { <<k, r[k]>> : k \in { x \in DOMAIN r : ~(x \in OptionalKeys /\ r[x] = "undefined") } }

\* JSON.parse of such a text: an object with the keys written.
JSONparse(text) ==
    [k \in { kv[1] : kv \in text } |-> (CHOOSE kv \in text : kv[1] = k)[2]]

IsDoc(f) == f.kind = "doc"

NoSkill == [kind |-> "none"]

VARIABLES
    files,      \* the skills directory: id -> Absent | Partial | document
    nextId,     \* the next identifier randomUUID hands out
    ops,        \* tool invocations started so far
    pc,         \* per handler: the awaited operation it is suspended at
    arg,        \* per handler: the tool and its parameters
    skill,      \* per handler: its loaded copy of a skill (NoSkill if none)
    dir,        \* per handler: file names readdir returned, not yet read
    listed,     \* per handler: documents list() has parsed so far
    res,        \* per handler: what its last invocation returned
    incDone,    \* history: per id, the incrementUsage calls that saved
    last,       \* history: per id, the usageCount last written to its file
    ver,        \* history: per id, the changes made to its file so far
    lastAt,     \* history: per id, the updatedAt last written to its file
    now,        \* the clock new Date() reads, in milliseconds
    eng,        \* per engine invocation: where executeM365Code and its script are
    busy,       \* the invocation whose JavaScript runs on the one thread, or 0
    intr,       \* the host's built-in objects (Math, Array, ...), as scripts left them
    readOnly,   \* the readOnly argument registerGraphTools ran with
    tools,      \* the names server.tool was called with
    sent,       \* methods of the requests endpoint tools handed to graphRequest
    deadline,   \* the last call of an execute tool: timeout passed, timeout handed on
    pager       \* the fetchAllPages loop of an endpoint tool's handler

hist == <<incDone, last, ver, lastAt>>

storeVars == <<files, nextId, ops, pc, arg, skill, dir, listed, res, incDone, last, ver, lastAt, now>>

engVars == <<eng, busy, intr>>

regVars == <<readOnly, tools, sent, deadline, pager>>

vars == <<files, nextId, ops, pc, arg, skill, dir, listed, res, incDone, last, ver, lastAt, now,
          eng, busy, intr, readOnly, tools, sent, deadline, pager>>

\* Engine invocations that may overlap; a call takes the first unused one.
Invs == 1..MaxInvs

NoCall == [op |-> "none", remote |-> "none", outcome |-> "none"]

NoInvocation ==
    [state |-> "idle", script |-> "none", ip |-> 1, scr |-> "off", sync |-> FALSE,
     acc |-> "undefined", glob |-> "undefined", timer |-> FALSE,
     result |-> "none", call |-> NoCall]

NoArg == [op |-> "none"]
NoRes == [op |-> "none", status |-> "none"]

\* ------------------------------------------------------ tool registration

\* api.endpoints, as the generated client lists them: alias and method.
Endpoints ==
    { [alias |-> "list-mail-messages", method |-> "get"],
      [alias |-> "send-mail", method |-> "post"],
      [alias |-> "delete-mail-message", method |-> "delete"] }

\* String.prototype.toUpperCase on a method name.
toUpperCase(m) ==
    CASE m = "get"    -> "GET"
      [] m = "post"   -> "POST"
      [] m = "delete" -> "DELETE"
      [] m = "patch"  -> "PATCH"
      [] m = "put"    -> "PUT"
      [] OTHER        -> m

\* The tools registered whatever the mode: discovery, code execution, skills.
MetaTools ==
    {"list-m365-categories", "list-category-tools", "execute-m365-code",
     "create-m365-skill", "list-m365-skills", "get-m365-skill", "execute-m365-skill",
     "update-m365-skill", "delete-m365-skill", "search-m365-skills"}

\* Whether registerGraphTools leaves the endpoint t out.
skipped(ro, t) == ro /\ toUpperCase(t.method) # "GET"

\* registerGraphTools(server, graphClient, readOnly): the names registered.
registerGraphTools(ro) ==
    { t.alias : t \in { e \in Endpoints : ~skipped(ro, e) } } \cup MetaTools

\* No execute tool called yet.
NoDeadline == [tool |-> "none"]

\* No endpoint tool running.
NoPager ==
    [at |-> "off", raw |-> FALSE, pageCount |-> 0, allItems |-> 0, first |-> 0,
     link |-> "none", requests |-> 0, returned |-> 0, ended |-> "none"]

Registered(ro) ==
    /\ readOnly = ro
    /\ tools = registerGraphTools(ro)
    /\ sent = {}
    /\ deadline = NoDeadline
    /\ pager = NoPager

\* The store as the earlier sessions left it, and no engine invocation yet.
Constructed ==
    /\ files = [i \in IdSpace |->
                    CASE i = BuiltinId -> Doc(BuiltinId, BuiltinName, "ret", 0, TRUE)
                      [] i = OldId     -> Doc(OldId, "alpha", "ret", 0, FALSE)
                      [] OTHER         -> Absent]
    /\ nextId = OldId + 1
    /\ ops = 0
    /\ pc = [p \in Procs |-> "idle"]
    /\ arg = [p \in Procs |-> NoArg]
    /\ skill = [p \in Procs |-> NoSkill]
    /\ dir = [p \in Procs |-> {}]
    /\ listed = [p \in Procs |-> {}]
    /\ res = [p \in Procs |-> NoRes]
    /\ incDone = [i \in IdSpace |-> 0]
    /\ last = [i \in IdSpace |-> 0]
    /\ ver = [i \in IdSpace |-> 0]
    /\ lastAt = [i \in IdSpace |-> 0]
    /\ now = 0
    /\ eng = [i \in Invs |-> NoInvocation]
    /\ busy = 0
    /\ intr = "undefined"

\* registerGraphTools with its default readOnly = false.
Init == Constructed /\ Registered(FALSE)

\* The skill the file of id holds in a directory of several kinds of skills.
ListDoc(id) ==
    LET d == Doc(id, IdString(id), "ret", 0, FALSE) IN
    CASE id = 1 -> Put(Put([d EXCEPT !.category = "mail", !.isBuiltin = TRUE, !.usageCount = 1],
                           "isPublic", TRUE), "tags", "t")
      [] id = 2 -> Put(Put(Put([d EXCEPT !.usageCount = 2], "isPublic", FALSE), "tags", "t,u"),
                       "author", "me")
      [] id = 3 -> Put(Put(Without(d, "isBuiltin"), "isPublic", TRUE), "author", "you")
      [] id = 4 -> Put([d EXCEPT !.category = "mail", !.usageCount = 2], "tags", "u")
      [] OTHER  -> Put(Put([d EXCEPT !.usageCount = 1], "isPublic", TRUE), "author", "me")

\* A skills directory in which each file is missing, unparsable or a skill.
ListInit ==
    /\ files \in [IdSpace -> {Absent, Partial} \cup { ListDoc(i) : i \in IdSpace }]
    /\ \A i \in IdSpace : IsDoc(files[i]) => files[i] = ListDoc(i)
    /\ nextId = MaxIds + 1
    /\ ops = 0
    /\ pc = [p \in Procs |-> "idle"]
    /\ arg = [p \in Procs |-> NoArg]
    /\ skill = [p \in Procs |-> NoSkill]
    /\ dir = [p \in Procs |-> {}]
    /\ listed = [p \in Procs |-> {}]
    /\ res = [p \in Procs |-> NoRes]
    /\ incDone = [i \in IdSpace |-> 0]
    /\ last = [i \in IdSpace |-> 0]
    /\ ver = [i \in IdSpace |-> 0]
    /\ lastAt = [i \in IdSpace |-> 0]
    /\ now = 0
    /\ eng = [i \in Invs |-> NoInvocation]
    /\ busy = 0
    /\ intr = "undefined"
    /\ Registered(FALSE)

\* A new skills directory, before loadBuiltinSkills has run on it.
SeedInit ==
    /\ files = [i \in IdSpace |-> Absent]
    /\ nextId = 1
    /\ ops = 0
    /\ pc = [p \in Procs |-> "idle"]
    /\ arg = [p \in Procs |-> NoArg]
    /\ skill = [p \in Procs |-> NoSkill]
    /\ dir = [p \in Procs |-> {}]
    /\ listed = [p \in Procs |-> {}]
    /\ res = [p \in Procs |-> NoRes]
    /\ incDone = [i \in IdSpace |-> 0]
    /\ last = [i \in IdSpace |-> 0]
    /\ ver = [i \in IdSpace |-> 0]
    /\ lastAt = [i \in IdSpace |-> 0]
    /\ now = 0
    /\ eng = [i \in Invs |-> NoInvocation]
    /\ busy = 0
    /\ intr = "undefined"
    /\ Registered(FALSE)

\* registerGraphTools in either mode.
ReadOnlyInit == Constructed /\ \E ro \in BOOLEAN : Registered(ro)


\* ------------------------------------------------------- handler helpers

NoChange == "<unchanged>"

\* The handler returns r: its locals are dropped.
Finish(p, r) ==
    /\ pc' = [pc EXCEPT ![p] = "idle"]
    /\ arg' = [arg EXCEPT ![p] = NoArg]
    /\ skill' = [skill EXCEPT ![p] = NoSkill]
    /\ dir' = [dir EXCEPT ![p] = {}]
    /\ listed' = [listed EXCEPT ![p] = {}]
    /\ res' = [res EXCEPT ![p] = r]

\* The handler suspends at the awaited operation at, holding the copy s.
Suspend(p, at, s) ==
    /\ pc' = [pc EXCEPT ![p] = at]
    /\ skill' = [skill EXCEPT ![p] = s]
    /\ UNCHANGED <<arg, res>>

\* The handler an arriving invocation takes, while more may arrive.
Free(p) ==
    /\ pc[p] = "idle"
    /\ \A q \in Procs : q < p => pc[q] # "idle"
    /\ ops < MaxOps

\* A tool invocation arrives at an idle handler.
Begin(p, a, at) ==
    /\ Free(p)
    /\ ops' = ops + 1
    /\ pc' = [pc EXCEPT ![p] = at]
    /\ arg' = [arg EXCEPT ![p] = a]
    /\ res' = [res EXCEPT ![p] = NoRes]
    /\ UNCHANGED <<files, nextId, skill, dir, listed, hist, engVars, regVars, now>>

\* !skill[k] for a string field: it is missing, undefined or empty.
Blank(s, k) == Field(s, k) \in {"", "undefined"}

\* SkillStorage.save up to its writeFile: the required fields of the record.
requiredPresentNameAndCode(s) == ~Blank(s, "name") /\ truthy(Field(s, "code"))

requiredPresent(s) ==
    /\ ~Blank(s, "name")
    /\ ~Blank(s, "description")
    /\ truthy(Field(s, "code"))
    /\ ~Blank(s, "category")

\* SkillStorage.save, its first lines: a record without id gets the id
\* newId, createdAt t1, usageCount 0 and isBuiltin false unless it is set;
\* every record gets updatedAt t2.
stampBackdated(s, newId, t1, t2) ==
    IF Field(s, "id") = NoId
    THEN Put(Put(Put(Put(Put(s, "id", newId), "createdAt", t2), "usageCount", 0),
                 "isBuiltin", IF "isBuiltin" \in DOMAIN s THEN s.isBuiltin ELSE FALSE),
             "updatedAt", t1)
    ELSE Put(s, "updatedAt", t2)

stampAlways(s, newId, t1, t2) ==
    Put(Put(Put(Put(Put(s, "id", newId), "createdAt", t1), "usageCount", 0),
            "isBuiltin", IF "isBuiltin" \in DOMAIN s THEN s.isBuiltin ELSE FALSE),
        "updatedAt", t2)

stamp(s, newId, t1, t2) ==
    IF Field(s, "id") = NoId
    THEN Put(Put(Put(Put(Put(s, "id", newId), "createdAt", t1), "usageCount", 0),
                 "isBuiltin", IF "isBuiltin" \in DOMAIN s THEN s.isBuiltin ELSE FALSE),
             "updatedAt", t2)
    ELSE Put(s, "updatedAt", t2)

\* The times two successive new Date() calls may read.
Later == { t \in {now, now + 1} : t <= MaxTime }

\* save(skill) of a record that has an id already (update, incrementUsage).
SaveExisting(p, s) ==
    IF requiredPresent(stamp(s, NoId, now, now))
    THEN /\ Suspend(p, "open", stamp(s, NoId, now, now))
         /\ UNCHANGED <<dir, listed>>
    ELSE Finish(p, [op |-> arg[p].op, status |-> "missing-fields"])

\* The object the create handler hands to save: no id, tags as given.
NewRecord(name, code, tags) ==
    [kind |-> "doc", id |-> NoId, name |-> name, description |-> "d",
     category |-> "general", code |-> code, tags |-> tags]

\* save(skill) of a record without id: randomUUID, usageCount 0, isBuiltin false.
SaveNew(p, name, code) ==
    /\ nextId' = nextId + 1
    /\ \E t2 \in Later :
        LET s == stamp(NewRecord(name, code, "undefined"), nextId, now, t2) IN
        /\ now' = t2
        /\ IF requiredPresent(s)
           THEN /\ Suspend(p, "open", s)
                /\ dir' = [dir EXCEPT ![p] = {}]
                /\ listed' = [listed EXCEPT ![p] = {}]
           ELSE Finish(p, [op |-> "create", status |-> "missing-fields"])

\* ---------------------------------------------------------------- list()

\* The documents list() returns: what it parsed, unparsable files skipped.
Parsed(set) == { d \in set : IsDoc(d) }

\* skills.sort(usageCount desc).find(name): a first match of the sorted list.
FirstByNameNever(docs, name) == {}

FirstByName(docs, name) ==
    { d \in docs : /\ d.name = name
                   /\ \A e \in docs : e.name = name => e.usageCount <= d.usageCount }

\* skill.tags, an array of strings or undefined: the strings in it.
TagList(v) ==
    CASE v = "t"   -> {"t"}
      [] v = "u"   -> {"u"}
      [] v = "t,u" -> {"t", "u"}
      [] OTHER     -> {}

\* list() called without filters.
NoFilters == [kind |-> "filters"]

\* The filters list() was called with.
Filters(a) == IF "filters" \in DOMAIN a THEN a.filters ELSE NoFilters

\* list(): the filter lines, for one parsed skill; a filter that is
\* undefined, and a category or author that is the empty string, is passed
\* over.
passesWhateverTags(d, f) ==
    /\ ~("category" \in DOMAIN f /\ f.category # "" /\ Field(d, "category") # f.category)
    /\ ~("author" \in DOMAIN f /\ f.author # "" /\ Field(d, "author") # f.author)
    /\ "isPublic" \in DOMAIN f => ("isPublic" \in DOMAIN d /\ d.isPublic = f.isPublic)
    /\ "isBuiltin" \in DOMAIN f => (("isBuiltin" \in DOMAIN d /\ d.isBuiltin) = f.isBuiltin)

passes(d, f) ==
    /\ ~("category" \in DOMAIN f /\ f.category # "" /\ Field(d, "category") # f.category)
    /\ ~("author" \in DOMAIN f /\ f.author # "" /\ Field(d, "author") # f.author)
    /\ "isPublic" \in DOMAIN f => ("isPublic" \in DOMAIN d /\ d.isPublic = f.isPublic)
    /\ "isBuiltin" \in DOMAIN f => (("isBuiltin" \in DOMAIN d /\ d.isBuiltin) = f.isBuiltin)
    /\ "tags" \in DOMAIN f => \E tag \in f.tags : tag \in TagList(Field(d, "tags"))

\* skills.sort((a, b) => b.usageCount - a.usageCount): a stable sort of the
\* skills, which were pushed in the order their files were read.
RECURSIVE sortUnsorted(_)
sortUnsorted(docs) ==
    IF docs = {} THEN <<>>
    ELSE LET top == CHOOSE d \in docs : \A e \in docs : e.id >= d.id
         IN <<top>> \o sortUnsorted(docs \ {top})

RECURSIVE sort(_)
sort(docs) ==
    IF docs = {} THEN <<>>
    ELSE LET top == CHOOSE d \in docs :
                        \A e \in docs : \/ e.usageCount < d.usageCount
                                        \/ e.usageCount = d.usageCount /\ e.id >= d.id
         IN <<top>> \o sort(docs \ {top})

\* What the caller of list() does with its result, in the same turn.
AfterList(p, got) ==
    LET docs == Parsed(got) IN
    CASE arg[p].op = "create" ->
            IF FirstByName(docs, arg[p].name) # {}
            THEN /\ Finish(p, [op |-> "create", status |-> "exists"])
                 /\ UNCHANGED <<nextId, now>>
            ELSE SaveNew(p, arg[p].name, arg[p].code)
      [] arg[p].op = "execute" ->
            /\ UNCHANGED <<nextId, now>>
            /\ IF FirstByName(docs, arg[p].name) # {}
               THEN \E d \in FirstByName(docs, arg[p].name) :
                       /\ pc' = [pc EXCEPT ![p] = "run"]
                       /\ skill' = [skill EXCEPT ![p] = d]
                       /\ arg' = [arg EXCEPT ![p].base = d.usageCount]
                       /\ dir' = [dir EXCEPT ![p] = {}]
                       /\ listed' = [listed EXCEPT ![p] = {}]
                       /\ UNCHANGED res
               ELSE Finish(p, [op |-> "execute", status |-> "not-found"])
      [] OTHER ->
            /\ UNCHANGED <<nextId, now>>
            /\ Finish(p, [op |-> "list", status |-> "ok",
                          ids |-> { d.id : d \in { e \in docs : passes(e, Filters(arg[p])) } },
                          skipped |-> got \ docs # {},
                          filters |-> Filters(arg[p]),
                          skills |-> sort({ d \in docs : passes(d, Filters(arg[p])) })])

\* list(): readdir.
ListDir(p) ==
    /\ UNCHANGED <<engVars, regVars>>
    /\ pc[p] = "readdir"
    /\ LET names == { i \in IdSpace : files[i] # Absent } IN
       IF names = {}
       THEN AfterList(p, {})
       ELSE /\ pc' = [pc EXCEPT ![p] = "listread"]
            /\ dir' = [dir EXCEPT ![p] = names]
            /\ listed' = [listed EXCEPT ![p] = {}]
            /\ UNCHANGED <<arg, skill, res, nextId, now>>
    /\ UNCHANGED <<files, ops, hist>>

Least(S) == CHOOSE i \in S : \A j \in S : i <= j

\* list(): readFile and JSON.parse of the next file; a file that is gone or
\* does not parse is skipped with a warning.
ListRead(p) ==
    /\ UNCHANGED <<engVars, regVars>>
    /\ pc[p] = "listread"
    /\ LET i == Least(dir[p])
           got == IF files[i] = Absent THEN listed[p] ELSE listed[p] \cup {files[i]}
       IN IF dir[p] = {i}
          THEN AfterList(p, got)
          ELSE /\ dir' = [dir EXCEPT ![p] = @ \ {i}]
               /\ listed' = [listed EXCEPT ![p] = got]
               /\ UNCHANGED <<pc, arg, skill, res, nextId, now>>
    /\ UNCHANGED <<files, ops, hist>>

\* ------------------------------------------------------------ tool entry

\* The (name, code) pairs create-m365-skill is called with.
CreateInputs ==
    { <<"alpha", "ret">>, <<"beta", "ret">>, <<"beta", "evil">>,
      <<"beta", "exit">>, <<"beta", "Eval">>, <<"", "ret">>, <<"beta", "empty">>,
      <<IdString(OldId), "ret">> }

\* The updates update-m365-skill is called with.
UpdateInputs ==
    { [name |-> "beta", code |-> NoChange], [name |-> NoChange, code |-> "ret2"],
      [name |-> NoChange, code |-> "evil"], [name |-> NoChange, code |-> "empty"] }

\* Identifiers still to be handed out to creates in flight.
Creating == Cardinality({ q \in Procs : pc[q] \in {"readdir", "listread"} /\ arg[q].op = "create" })

\* create-m365-skill: validateCode, then getByName(name).
CreateSkill(p) ==
    /\ UNCHANGED <<engVars, regVars, now>>
    /\ Free(p)
    /\ \E in \in CreateInputs :
        LET name == in[1]
            code == in[2] IN
        IF validateCode(code).valid
        THEN /\ nextId + Creating <= MaxIds
             /\ Begin(p, [op |-> "create", name |-> name, code |-> code], "readdir")
        ELSE /\ ops' = ops + 1
             /\ Finish(p, [op |-> "create", status |-> "invalid-code",
                           errors |-> validateCode(code).errors])
             /\ UNCHANGED <<files, nextId, hist>>

\* update-m365-skill: get(skillId) first.
UpdateSkill(p) ==
    \E id \in IdSpace, u \in UpdateInputs :
        Begin(p, [op |-> "update", id |-> id, name |-> u.name, code |-> u.code], "u_get")

\* delete-m365-skill: get(skillId) first.
DeleteSkill(p) ==
    \E id \in IdSpace : Begin(p, [op |-> "delete", id |-> id], "d_get")

\* execute-m365-skill: get(skillId) first, skillId an identifier or a name;
\* the string that is an identifier may be some skill's name as well.
ExecuteSkill(p) ==
    \/ \E id \in IdSpace :
          Begin(p, [op |-> "execute", by |-> "id", id |-> id, name |-> IdString(id),
                    base |-> 0], "x_get")
    \/ \E name \in {"alpha"} :
          Begin(p, [op |-> "execute", by |-> "name", id |-> 0, name |-> name, base |-> 0], "x_get")

\* SkillStorage.incrementUsage called on its own.
IncrementUsage(p) ==
    \E id \in IdSpace : Begin(p, [op |-> "increment", id |-> id, base |-> 0], "i_get")

\* SkillStorage.get called on its own (get-m365-skill by identifier).
GetSkill(p) ==
    \E id \in IdSpace : Begin(p, [op |-> "get", id |-> id], "g_get")

\* list-m365-skills without filters.
ListSkills(p) == Begin(p, [op |-> "list"], "readdir")

\* The filters list() is called with.
ListFilters ==
    LET f == NoFilters IN
    { f, Put(f, "category", "mail"), Put(f, "category", "general"), Put(f, "category", ""),
      Put(f, "author", "me"), Put(f, "isPublic", TRUE), Put(f, "isPublic", FALSE),
      Put(f, "isBuiltin", TRUE), Put(f, "isBuiltin", FALSE),
      Put(f, "tags", {"t"}), Put(f, "tags", {"u", "v"}), Put(f, "tags", {}),
      Put(Put(Put(f, "category", "general"), "isBuiltin", FALSE), "tags", {"u"}),
      Put(Put(f, "category", "mail"), "isPublic", TRUE) }

\* The pieces of the texts validateCode is called with: the patterns, two
\* halves of one of them and a harmless character.
Fragments ==
    { forbidden[k] : k \in 1..Len(forbidden) } \cup { <<"e","v","a">>, <<"l","(">>, <<"x">> }

\* The text written so far for a call of validateCode.
Draft == IF arg[1].op = "validate" THEN arg[1] ELSE [op |-> "validate", code |-> <<>>, n |-> 0]

\* The caller puts the text together, piece after piece.
ComposeCode ==
    /\ Draft.n < MaxFragments
    /\ \E f \in Fragments :
          arg' = [arg EXCEPT ![1] = [op |-> "validate", code |-> Draft.code \o f,
                                     n |-> Draft.n + 1]]
    /\ UNCHANGED <<files, nextId, ops, pc, skill, dir, listed, res, hist, now,
                   engVars, regVars>>

\* SkillStorage.validateCode(code) called on its own, on the text as it is.
ValidateCode ==
    /\ res' = [res EXCEPT ![1] = [op |-> "validate", status |-> "ok", code |-> Draft.code,
                                  valid |-> validateText(Draft.code).valid,
                                  errors |-> validateText(Draft.code).errors]]
    /\ UNCHANGED <<files, nextId, ops, pc, arg, skill, dir, listed, hist, now,
                   engVars, regVars>>

\* storage.list(filters) called while no other handler runs.
ListFiltered(p) ==
    /\ \A q \in Procs : pc[q] = "idle"
    /\ \E f \in ListFilters : Begin(p, [op |-> "list", filters |-> f], "readdir")

\* The records storage.save is called with: new ones, complete or not, and
\* records read from the store before, changed by the caller.
SaveInputs ==
    LET base == NewRecord("gamma", "ret", "undefined") IN
    { base, [base EXCEPT !.tags = "t"], Put(base, "isBuiltin", TRUE),
      [base EXCEPT !.name = ""], [base EXCEPT !.description = ""],
      [base EXCEPT !.code = "empty"], Without(base, "category") }
    \cup { [files[i] EXCEPT !.description = "d2"] : i \in { j \in IdSpace : IsDoc(files[j]) } }
    \cup { [files[i] EXCEPT !.category = ""] : i \in { j \in IdSpace : IsDoc(files[j]) } }

\* SkillStorage.save called on its own: stamp, required fields, then writeFile.
ApiSave(p) ==
    /\ UNCHANGED <<engVars, regVars>>
    /\ Free(p)
    /\ \E in \in SaveInputs, t2 \in Later :
        LET isNew == Field(in, "id") = NoId
            s == stamp(in, nextId, now, t2) IN
        /\ isNew => nextId + Creating <= MaxIds
        /\ ~isNew => t2 = now
        /\ ops' = ops + 1
        /\ nextId' = IF isNew THEN nextId + 1 ELSE nextId
        /\ now' = t2
        /\ IF requiredPresent(s)
           THEN /\ pc' = [pc EXCEPT ![p] = "open"]
                /\ arg' = [arg EXCEPT ![p] = [op |-> "save", id |-> s.id, input |-> in]]
                /\ skill' = [skill EXCEPT ![p] = s]
                /\ res' = [res EXCEPT ![p] = NoRes]
                /\ UNCHANGED <<dir, listed>>
           ELSE Finish(p, [op |-> "save", status |-> "missing-fields", input |-> in])
    /\ UNCHANGED <<files, hist>>

\* Time passes: the clock of new Date() advances by a millisecond.
Tick ==
    /\ now < MaxTime
    /\ now' = now + 1
    /\ UNCHANGED <<files, nextId, ops, pc, arg, skill, dir, listed, res, hist,
                   engVars, regVars>>

\* ------------------------------------------------------- awaited reads

\* get(id): readFile and JSON.parse.  null when the file is absent; a file
\* without a complete document makes JSON.parse throw.
GetRead(p) ==
    /\ UNCHANGED <<engVars, regVars, now>>
    /\ pc[p] = "g_get"
    /\ Finish(p, [op |-> "get", status |-> "ok", id |-> arg[p].id,
                  seen |-> files[arg[p].id], ver |-> ver[arg[p].id]])
    /\ UNCHANGED <<files, nextId, ops, hist>>

\* Object.assign(skill, updates)
Assign(s, a) ==
    [s EXCEPT !.name = IF a.name = NoChange THEN @ ELSE a.name,
              !.code = IF a.code = NoChange THEN @ ELSE a.code]

\* Whether the update handler validates the new code and refuses it.
updateRefusedNever(a) == FALSE

updateRefused(a) ==
    a.code # NoChange /\ truthy(a.code) /\ ~validateCode(a.code).valid

\* update-m365-skill after get: validate, Object.assign, save.
UpdGet(p) ==
    /\ UNCHANGED <<engVars, regVars, now>>
    /\ pc[p] = "u_get"
    /\ LET f == files[arg[p].id] IN
       CASE f = Absent  -> Finish(p, [op |-> "update", status |-> "not-found"])
         [] f = Partial -> Finish(p, [op |-> "update", status |-> "parse-error"])
         [] OTHER ->
            IF updateRefused(arg[p])
            THEN Finish(p, [op |-> "update", status |-> "invalid-code",
                            errors |-> validateCode(arg[p].code).errors])
            ELSE SaveExisting(p, Assign(f, arg[p]))
    /\ UNCHANGED <<files, nextId, ops, hist>>

\* Whether the delete handler refuses the record get returned.
deleteRefusedNever(f) == FALSE

deleteRefused(f) == IsDoc(f) /\ f.isBuiltin

\* delete-m365-skill after get: refuse a built-in, else storage.delete.
DelGet(p) ==
    /\ UNCHANGED <<engVars, regVars, now>>
    /\ pc[p] = "d_get"
    /\ LET f == files[arg[p].id] IN
       CASE f = Partial -> Finish(p, [op |-> "delete", status |-> "parse-error"])
         [] deleteRefused(f) ->
                Finish(p, [op |-> "delete", status |-> "refused", id |-> arg[p].id])
         [] OTHER -> /\ pc' = [pc EXCEPT ![p] = "unlink"]
                     /\ UNCHANGED <<arg, skill, dir, listed, res>>
    /\ UNCHANGED <<files, nextId, ops, hist>>

\* storage.delete with an unlink whose ENOENT is thrown on.
DelUnlinkThrows(p) ==
    /\ UNCHANGED <<engVars, regVars, now>>
    /\ pc[p] = "unlink"
    /\ IF files[arg[p].id] = Absent
       THEN /\ Finish(p, [op |-> "delete", status |-> "error", id |-> arg[p].id])
            /\ UNCHANGED <<files, ver>>
       ELSE /\ Finish(p, [op |-> "delete", status |-> "ok", id |-> arg[p].id])
            /\ files' = [files EXCEPT ![arg[p].id] = Absent]
            /\ ver' = [ver EXCEPT ![arg[p].id] = @ + 1]
    /\ UNCHANGED <<nextId, ops, incDone, last, lastAt>>

\* storage.delete: unlink; false when the file is absent.
DelUnlink(p) ==
    /\ UNCHANGED <<engVars, regVars, now>>
    /\ pc[p] = "unlink"
    /\ IF files[arg[p].id] = Absent
       THEN /\ Finish(p, [op |-> "delete", status |-> "not-found", id |-> arg[p].id])
            /\ UNCHANGED <<files, ver>>
       ELSE /\ Finish(p, [op |-> "delete", status |-> "ok", id |-> arg[p].id])
            /\ files' = [files EXCEPT ![arg[p].id] = Absent]
            /\ ver' = [ver EXCEPT ![arg[p].id] = @ + 1]
    /\ UNCHANGED <<nextId, ops, incDone, last, lastAt>>

\* storage.get(skillId) in execute-m365-skill: the file named by the string,
\* which exists only when the string is an identifier.
getByIdNever(fs, a) == Absent

getById(fs, a) == IF a.by = "id" THEN fs[a.id] ELSE Absent

\* execute-m365-skill: get(skillId), then getByName(skillId) when null.
ExecGet(p) ==
    /\ UNCHANGED <<engVars, regVars, now>>
    /\ pc[p] = "x_get"
    /\ LET f == getById(files, arg[p]) IN
       CASE f = Absent  -> /\ pc' = [pc EXCEPT ![p] = "readdir"]
                           /\ UNCHANGED <<arg, skill, dir, listed, res>>
         [] f = Partial -> Finish(p, [op |-> "execute", status |-> "parse-error"])
         [] OTHER -> /\ pc' = [pc EXCEPT ![p] = "run"]
                     /\ skill' = [skill EXCEPT ![p] = f]
                     /\ arg' = [arg EXCEPT ![p].base = f.usageCount]
                     /\ UNCHANGED <<dir, listed, res>>
    /\ UNCHANGED <<files, nextId, ops, hist>>

\* How executeM365Code ends for the handler that awaits it.
Outcomes == {"completed", "failed", "timed-out"}

\* Whether the executor goes on to incrementUsage after the engine ended.
incrementsAfter(outcome) == outcome = "completed"

\* execute-m365-skill: the awaited executeM365Code returns or throws.
EngineReturn(p) ==
    /\ UNCHANGED <<engVars, regVars, now>>
    /\ pc[p] = "run"
    /\ \E outcome \in Outcomes :
          IF incrementsAfter(outcome)
          THEN /\ pc' = [pc EXCEPT ![p] = "i_get"]
               /\ arg' = [arg EXCEPT ![p] =
                            [op |-> "execute", by |-> "id", id |-> skill[p].id,
                             name |-> "", base |-> arg[p].base]]
               /\ skill' = [skill EXCEPT ![p] = NoSkill]
               /\ UNCHANGED <<dir, listed, res>>
          ELSE Finish(p, [op |-> "execute", status |-> outcome])
    /\ UNCHANGED <<files, nextId, ops, hist>>

\* What a finished incrementUsage means to its caller.
IncResult(p, wrote) ==
    IF arg[p].op = "execute"
    THEN [op |-> "execute", status |-> "completed", id |-> arg[p].id,
          usageCount |-> arg[p].base + 1, wrote |-> wrote]
    ELSE [op |-> "increment", status |-> "ok", id |-> arg[p].id, wrote |-> wrote]

\* incrementUsage: get(id); when found, usageCount++ and save.
IncGet(p) ==
    /\ UNCHANGED <<engVars, regVars, now>>
    /\ pc[p] = "i_get"
    /\ LET f == files[arg[p].id] IN
       CASE f = Absent  -> Finish(p, IncResult(p, FALSE))
         [] f = Partial -> Finish(p, [op |-> arg[p].op, status |-> "parse-error"])
         [] OTHER -> SaveExisting(p, [f EXCEPT !.usageCount = @ + 1])
    /\ UNCHANGED <<files, nextId, ops, hist>>

\* ------------------------------------------------------------ writeFile

\* writeFile, first half: the file is opened with flag 'w', which creates it
\* or truncates it.
SaveOpen(p) ==
    /\ UNCHANGED <<engVars, regVars, now>>
    /\ pc[p] = "open"
    /\ files' = [files EXCEPT ![skill[p].id] = Partial]
    /\ ver' = [ver EXCEPT ![skill[p].id] = @ + 1]
    /\ pc' = [pc EXCEPT ![p] = "write"]
    /\ UNCHANGED <<nextId, ops, arg, skill, dir, listed, res, incDone, last, lastAt>>

SaveDone(p) ==
    CASE arg[p].op = "create" ->
            [op |-> "create", status |-> "ok", id |-> skill[p].id]
      [] arg[p].op = "update" ->
            [op |-> "update", status |-> "ok", id |-> skill[p].id]
      [] arg[p].op = "save" ->
            [op |-> "save", status |-> "ok", id |-> skill[p].id, input |-> arg[p].input,
             rec |-> skill[p], ver |-> ver'[skill[p].id]]
      [] OTHER -> IncResult(p, TRUE)

\* writeFile, second half: the document is written; a file unlinked since
\* the open stays gone (the write goes to the unlinked file).
SaveWrite(p) ==
    /\ UNCHANGED <<engVars, regVars, now>>
    /\ pc[p] = "write"
    /\ LET id == skill[p].id
           lands == files[id] # Absent IN
       /\ files' = IF lands THEN [files EXCEPT ![id] = JSONparse(JSONstringify(skill[p]))]
                    ELSE files
       /\ ver' = IF lands THEN [ver EXCEPT ![id] = @ + 1] ELSE ver
       /\ last' = IF lands THEN [last EXCEPT ![id] = skill[p].usageCount] ELSE last
       /\ lastAt' = IF lands THEN [lastAt EXCEPT ![id] = skill[p].updatedAt] ELSE lastAt
       /\ incDone' = IF arg[p].op \in {"increment", "execute"}
                     THEN [incDone EXCEPT ![id] = @ + 1] ELSE incDone
    /\ Finish(p, SaveDone(p))
    /\ UNCHANGED <<nextId, ops>>

\* writeFile, second half failing (disk full, I/O error): save rethrows.
SaveFail(p) ==
    /\ UNCHANGED <<engVars, regVars, now>>
    /\ pc[p] = "write"
    /\ Finish(p, [op |-> arg[p].op, status |-> "storage-error", id |-> skill[p].id,
                  left |-> files[skill[p].id]])
    /\ UNCHANGED <<files, nextId, ops, hist>>

\* ----------------------------------------------------- loadBuiltinSkills

\* The names of BUILTIN_SKILLS, in the order of the array.
BuiltinNames ==
    <<"summarizeTodaysEmails", "getUnreadUrgentEmails", "analyzeTodaysMeetings",
      "getOverdueTasks", "getTodaysTodoTasks", "dailyProductivitySummary">>

\* BUILTIN_SKILLS as the module defines it: no id, tags, isBuiltin true.
BUILTIN_SKILLS ==
    [i \in 1..MaxBuiltins |-> Put(NewRecord(BuiltinNames[i], "ret", "t"), "isBuiltin", TRUE)]

\* list({ isBuiltin: true }): the built-in records found in the store.
BuiltinRecords ==
    { files[i] : i \in { j \in IdSpace : IsDoc(files[j]) /\ files[j].isBuiltin } }

\* The definitions of d that a call would save under a new id.
Unseeded(d) ==
    { i \in DOMAIN d : /\ d[i].id = NoId
                       /\ FirstByName(Parsed({ files[j] : j \in IdSpace }), d[i].name) = {} }

\* loadBuiltinSkills(storage) is called: at the start of a process, whose
\* BUILTIN_SKILLS is as defined, or again in the process of the call before,
\* whose BUILTIN_SKILLS holds what save assigned to its elements.
SeedStart(p) ==
    /\ Free(p)
    /\ \A q \in Procs : pc[q] = "idle"
    /\ ops < MaxOps
    /\ ops' = ops + 1
    /\ \E d \in {BUILTIN_SKILLS} \cup (IF res[p].op = "seeded" THEN {res[p].defs} ELSE {}) :
        /\ nextId - 1 + Cardinality(Unseeded(d)) <= MaxIds
        /\ arg' = [arg EXCEPT ![p] =
                      [op |-> "seed", call |-> ops + 1, idx |-> 1, loaded |-> 0,
                       failed |-> 0, defs |-> d, before |-> BuiltinRecords,
                       prevFailed |-> IF res[p].op = "seeded" THEN res[p].failed ELSE 0]]
    /\ pc' = [pc EXCEPT ![p] = "s_check"]
    /\ UNCHANGED <<files, nextId, skill, dir, listed, res, hist, now, engVars, regVars>>

\* One turn of the loop: getByName(skillDef.name), then continue or save up
\* to its writeFile; after the last definition, return loaded.  save stamps
\* the element of BUILTIN_SKILLS itself.
SeedCheck(p) ==
    /\ pc[p] = "s_check"
    /\ LET a == arg[p] IN
       IF a.idx > Len(a.defs)
       THEN /\ Finish(p, [op |-> "seeded", status |-> "ok", call |-> a.call,
                          count |-> a.loaded, failed |-> a.failed,
                          prevFailed |-> a.prevFailed, defs |-> a.defs,
                          before |-> a.before, after |-> BuiltinRecords])
            /\ UNCHANGED <<nextId, now>>
       ELSE LET d == a.defs[a.idx] IN
            IF FirstByName(Parsed({ files[j] : j \in IdSpace }), d.name) # {}
            THEN /\ arg' = [arg EXCEPT ![p].idx = @ + 1]
                 /\ UNCHANGED <<pc, skill, dir, listed, res, nextId, now>>
            ELSE \E t2 \in Later :
                    LET isNew == d.id = NoId
                        s == stamp(d, nextId, now, t2) IN
                    /\ ~isNew => t2 = now
                    /\ requiredPresent(s)
                    /\ now' = t2
                    /\ nextId' = IF isNew THEN nextId + 1 ELSE nextId
                    /\ arg' = [arg EXCEPT ![p].defs[a.idx] = s]
                    /\ skill' = [skill EXCEPT ![p] = s]
                    /\ pc' = [pc EXCEPT ![p] = "open"]
                    /\ UNCHANGED <<dir, listed, res>>
    /\ UNCHANGED <<files, ops, hist, engVars, regVars>>

\* writeFile, second half, in the loop: loaded++ and on to the next one.
SeedWrite(p) ==
    /\ pc[p] = "write"
    /\ arg[p].op = "seed"
    /\ LET id == skill[p].id IN
       /\ files' = [files EXCEPT ![id] = JSONparse(JSONstringify(skill[p]))]
       /\ ver' = [ver EXCEPT ![id] = @ + 1]
       /\ last' = [last EXCEPT ![id] = skill[p].usageCount]
       /\ lastAt' = [lastAt EXCEPT ![id] = skill[p].updatedAt]
    /\ arg' = [arg EXCEPT ![p].idx = @ + 1, ![p].loaded = @ + 1]
    /\ pc' = [pc EXCEPT ![p] = "s_check"]
    /\ skill' = [skill EXCEPT ![p] = NoSkill]
    /\ UNCHANGED <<nextId, ops, dir, listed, res, incDone, now, engVars, regVars>>

\* writeFile failing in the loop: save rethrows, the loop's catch logs the
\* error and goes on to the next definition.
SeedFail(p) ==
    /\ pc[p] = "write"
    /\ arg[p].op = "seed"
    /\ arg' = [arg EXCEPT ![p].idx = @ + 1, ![p].failed = @ + 1]
    /\ pc' = [pc EXCEPT ![p] = "s_check"]
    /\ skill' = [skill EXCEPT ![p] = NoSkill]
    /\ UNCHANGED <<files, nextId, ops, dir, listed, res, hist, now, engVars, regVars>>

\* ------------------------------------------------------- capability facade

\* GraphClient.graphRequest: the envelope it returns.  A failure of
\* makeRequest is caught and returned as an envelope with isError set.
graphRequest(remote) ==
    IF remote = "ok" THEN [text |-> "payload-json", isError |-> FALSE]
    ELSE [text |-> "error-json", isError |-> TRUE]

\* JSON.parse of the envelope's text.
JsonParse(text) ==
    CASE text = "payload-json" -> [ok |-> TRUE, value |-> "payload"]
      [] text = "error-json"   -> [ok |-> TRUE, value |-> "error-object"]
      [] OTHER                 -> [ok |-> FALSE, value |-> "SyntaxError"]

\* How the operations of createM365Client turn the envelope into their
\* result: mail.list and most others parse it, mail.send parses it when it
\* is not empty, mail.delete ignores it, files.get hands the text on.
FacadeOps == {"parse", "parseOrSuccess", "ignore", "raw"}

Facade(op, env) ==
    CASE op = "ignore" -> [thrown |-> FALSE, value |-> "success-object"]
      [] op = "raw"    -> [thrown |-> FALSE, value |-> env.text]
      [] op = "parseOrSuccess" /\ env.text = "" ->
                          [thrown |-> FALSE, value |-> "success-object"]
      [] OTHER -> IF JsonParse(env.text).ok
                  THEN [thrown |-> FALSE, value |-> JsonParse(env.text).value]
                  ELSE [thrown |-> TRUE, value |-> "SyntaxError"]

\* ------------------------------------------------------- execution engine

\* Scripts, as the steps of their async function body.
Program(s) ==
    CASE s = "ret"      -> <<"return">>
      [] s = "throw"    -> <<"throw">>
      [] s = "loop"     -> <<"loop">>
      [] s = "never"    -> <<"never">>
      [] s = "list"     -> <<"parse", "return">>
      [] s = "send"     -> <<"parseOrSuccess", "return">>
      [] s = "delete"   -> <<"ignore", "return">>
      [] s = "download" -> <<"raw", "return">>
      [] s = "listloop" -> <<"parse", "loop">>
      [] s = "taint"    -> <<"setIntr", "return">>
      [] s = "probe"    -> <<"getIntr", "return">>
      [] s = "global"   -> <<"setGlobal", "getGlobal", "return">>
      [] s = "gprobe"   -> <<"getGlobal", "return">>
      [] s = "mimic"    -> <<"throwTimeout">>
      [] OTHER          -> <<>>

\* "syntax" is a text that new Script rejects; "mimic" is
\* throw new Error('Execution timeout').
Scripts ==
    {"ret", "throw", "loop", "never", "list", "send", "delete", "download",
     "listloop", "taint", "probe", "global", "gprobe", "mimic", "syntax"}

Compiles(s) == s # "syntax"

Terminal == {"completed", "timed-out", "failed"}

\* Promise.race and the try/catch of executeM365Code: the first of the
\* script's result and the timer decides, later ones are dropped.
settleOverwrites(state, outcome) == outcome

settle(state, outcome) == IF state = "running" THEN outcome ELSE state

\* A race whose later party reports its result over the first one's.
SettledReportsAgain(e, outcome, result) ==
    [e EXCEPT !.state = settle(e.state, outcome), !.result = result]

Settled(e, outcome, result) ==
    [e EXCEPT !.state = settle(e.state, outcome),
              !.result = IF settle(e.state, outcome) = e.state /\ e.state # "running"
                         THEN @ ELSE result]

\* executeM365Code is called: options, the m365 client and a fresh sandbox.
EStart(i) ==
    /\ UNCHANGED <<storeVars, regVars>>
    /\ eng[i].state = "idle"
    /\ \A j \in Invs : j < i => eng[j].state # "idle"
    /\ busy = 0
    /\ \E s \in Scripts :
          eng' = [eng EXCEPT ![i] = [NoInvocation EXCEPT !.state = "created",
                                                        !.script = s, !.sync = TRUE]]
    /\ busy' = i
    /\ UNCHANGED intr

\* new Script(wrappedCode) is entered.
ECompile(i) ==
    /\ UNCHANGED <<storeVars, regVars>>
    /\ eng[i].state = "created"
    /\ eng' = [eng EXCEPT ![i].state = "compiling"]
    /\ UNCHANGED <<busy, intr>>

\* new Script returns, or throws a SyntaxError that the catch rethrows;
\* script.runInContext then starts the async function.
ECompiled(i) ==
    /\ UNCHANGED <<storeVars, regVars>>
    /\ eng[i].state = "compiling"
    /\ IF Compiles(eng[i].script)
       THEN /\ eng' = [eng EXCEPT ![i].state = "running", ![i].scr = "ready"]
            /\ UNCHANGED busy
       ELSE /\ eng' = [eng EXCEPT ![i].state = "failed",
                                  ![i].result = "SyntaxError"]
            /\ busy' = 0
    /\ UNCHANGED intr

\* The script gives up the thread; leaving runInContext arms the timer of
\* the race.
Yield(e) == [e EXCEPT !.sync = FALSE, !.timer = IF e.sync THEN TRUE ELSE @]

\* One step of the script on the thread.
EStep(i) ==
    /\ UNCHANGED <<storeVars, regVars>>
    /\ busy = i
    /\ eng[i].scr = "ready"
    /\ LET e == eng[i]
           ins == Program(e.script)[e.ip]
           nxt == [e EXCEPT !.ip = @ + 1] IN
       CASE ins = "return" ->
               /\ eng' = [eng EXCEPT ![i] =
                            Yield(Settled([e EXCEPT !.scr = "ended"], "completed", e.acc))]
               /\ busy' = 0
               /\ UNCHANGED intr
         [] ins = "throw" ->
               /\ eng' = [eng EXCEPT ![i] =
                            Yield(Settled([e EXCEPT !.scr = "ended"], "failed", "script-error"))]
               /\ busy' = 0
               /\ UNCHANGED intr
         [] ins = "throwTimeout" ->
               /\ eng' = [eng EXCEPT ![i] =
                            Yield(Settled([e EXCEPT !.scr = "ended"], "failed",
                                          "Execution timeout"))]
               /\ busy' = 0
               /\ UNCHANGED intr
         [] ins = "loop" ->
               /\ eng' = [eng EXCEPT ![i].scr = "loop"]
               /\ UNCHANGED <<busy, intr>>
         [] ins = "never" ->
               /\ eng' = [eng EXCEPT ![i] = Yield([e EXCEPT !.scr = "never"])]
               /\ busy' = 0
               /\ UNCHANGED intr
         [] ins \in FacadeOps ->
               /\ eng' = [eng EXCEPT ![i] =
                            Yield([e EXCEPT !.scr = "call",
                                            !.call = [op |-> ins, remote |-> "pending",
                                                      outcome |-> "pending"]])]
               /\ busy' = 0
               /\ UNCHANGED intr
         [] ins = "setIntr" ->
               /\ eng' = [eng EXCEPT ![i] = nxt]
               /\ intr' = "one"
               /\ UNCHANGED busy
         [] ins = "getIntr" ->
               /\ eng' = [eng EXCEPT ![i] = [nxt EXCEPT !.acc = intr]]
               /\ UNCHANGED <<busy, intr>>
         [] ins = "setGlobal" ->
               /\ eng' = [eng EXCEPT ![i] = [nxt EXCEPT !.glob = "one"]]
               /\ UNCHANGED <<busy, intr>>
         [] ins = "getGlobal" ->
               /\ eng' = [eng EXCEPT ![i] = [nxt EXCEPT !.acc = e.glob]]
               /\ UNCHANGED <<busy, intr>>

\* The timeout of runInContext interrupts a script that still runs in it.
EVmTimeout(i) ==
    /\ UNCHANGED <<storeVars, regVars>>
    /\ busy = i
    /\ eng[i].scr = "loop"
    /\ eng[i].sync
    /\ eng' = [eng EXCEPT ![i] =
                 [Settled(eng[i], "timed-out", "Script execution timed out")
                    EXCEPT !.scr = "ended", !.sync = FALSE]]
    /\ busy' = 0
    /\ UNCHANGED intr

\* The remote call of a capability operation ends; the operation returns or
\* throws into the script, which goes on whatever the race has decided.
ECallResolve(i) ==
    /\ UNCHANGED <<storeVars, regVars>>
    /\ busy = 0
    /\ eng[i].scr = "call"
    /\ \E remote \in {"ok", "fail"} :
         LET e == eng[i]
             out == Facade(e.call.op, graphRequest(remote)) IN
         IF out.thrown
         THEN /\ eng' = [eng EXCEPT ![i] =
                           Settled([e EXCEPT !.scr = "ended",
                                             !.call = [op |-> e.call.op, remote |-> remote,
                                                       outcome |-> "thrown"]],
                                   "failed", out.value)]
              /\ UNCHANGED busy
         ELSE /\ eng' = [eng EXCEPT ![i] =
                           [e EXCEPT !.scr = "ready", !.ip = @ + 1, !.acc = out.value,
                                     !.call = [op |-> e.call.op, remote |-> remote,
                                               outcome |-> "returned"]]]
              /\ busy' = i
    /\ UNCHANGED intr

\* The timer of the race fires, once the thread is free to run it.
ETimerFire(i) ==
    /\ UNCHANGED <<storeVars, regVars>>
    /\ busy = 0
    /\ eng[i].timer
    /\ eng' = [eng EXCEPT ![i] =
                 [Settled(eng[i], "timed-out", "Execution timeout") EXCEPT !.timer = FALSE]]
    /\ UNCHANGED <<busy, intr>>

\* ----------------------------------------------------------------- deadlines

\* timeout || 30000 (src/unnamed/part_001 and the skill handler).
DefaultTimeout == 30000

\* maxTimeout of the execute-m365-code handler.
MaxTimeout == 60000

\* The timeout parameter of a call: left out, or a number of milliseconds
\* (the schema is z.number().optional()).
Timeouts ==
    {[given |-> FALSE, ms |-> 0]}
        \cup { [given |-> TRUE, ms |-> k * 2500 + d] : k \in -1..MaxSteps, d \in {-1, 0, 1} }

\* x || 30000 on a number or undefined.
orDefault(in) == IF ~in.given \/ in.ms = 0 THEN DefaultTimeout ELSE in.ms

\* Math.min(timeout, maxTimeout)
Min(a, b) == IF a <= b THEN a ELSE b

\* executeM365Code: const timeout = options.timeout || 30000.
engineTimeout(ms) == orDefault([given |-> TRUE, ms |-> ms])

\* execute-m365-code: { timeout = 30000 } = params, Math.min(timeout, 60000),
\* then executeM365Code.
codeToolTimeout(in) ==
    engineTimeout(Min(IF in.given THEN in.ms ELSE DefaultTimeout, MaxTimeout))

\* execute-m365-skill: timeout: timeout || 30000, then executeM365Code.
skillToolTimeout(in) == engineTimeout(orDefault(in))

\* One of the two tools is called with a timeout parameter.
ExecuteWithTimeout ==
    /\ \E in \in Timeouts :
          \/ deadline' = [tool |-> "execute-m365-code", input |-> in,
                          handed |-> codeToolTimeout(in)]
          \/ deadline' = [tool |-> "execute-m365-skill", input |-> in,
                          handed |-> skillToolTimeout(in)]
    /\ UNCHANGED <<storeVars, engVars, readOnly, tools, sent, pager>>

\* ------------------------------------------------------------ tool calls

\* The method of the request an operation of createM365Client issues:
\* mail.list GET, mail.send POST, mail.delete DELETE, files.get GET.
FacadeMethod(op) ==
    CASE op = "parse"          -> "GET"
      [] op = "parseOrSuccess" -> "POST"
      [] op = "ignore"         -> "DELETE"
      [] op = "raw"            -> "GET"
      [] OTHER                 -> "none"

\* A registered endpoint tool is called: its handler hands a request with
\* the endpoint's method to graphClient.graphRequest.
EndpointTool(t) ==
    /\ t.alias \in tools
    /\ sent' = sent \cup {toUpperCase(t.method)}
    /\ UNCHANGED <<storeVars, engVars, readOnly, tools, deadline, pager>>

\* --------------------------------------------------------------- pagination

\* The page limit of the fetchAllPages loop.
MaxPages == 100

\* What makeRequest comes back with for one page: a collection with a next
\* link, the last page of a collection, an object with a next link and no
\* value array, a collection whose next link is not an absolute URL, no
\* data at all, or a failure.
PageKinds == {"next", "last", "bare-next", "bad-link", "undefined", "error"}

\* graphRequest and formatJsonResponse on such a page with n items, and
\* JSON.parse of the text of the envelope.  Unless rawResponse is set the
\* @odata. properties are removed and missing data becomes {success: true};
\* with rawResponse the text is JSON.stringify(data), undefined for no data.
\* value is the length of the value array, -1 when there is none.
Envelope(raw, kind, n) ==
    [parses |-> ~(raw /\ kind = "undefined"),
     value  |-> IF kind \in {"next", "last", "bad-link"} THEN n ELSE -1,
     link   |-> CASE raw /\ kind \in {"next", "bare-next"} -> "url"
                  [] raw /\ kind = "bad-link"             -> "bad"
                  [] OTHER                                -> "none"]

\* combinedResponse.value || [], and the items concat adds.
Items(env) == IF env.value >= 0 THEN env.value ELSE 0

\* if (pageCount > 100) break
cappedNever(pageCount) == FALSE

capped(pageCount) == pageCount > MaxPages

\* The handler goes on to return its response: the combined one, or, after
\* an exception in the try block, the response of the first request.
Returns(pg, how, items) == [pg EXCEPT !.at = "done", !.ended = how, !.returned = items]

\* An endpoint tool with method GET is called: the first request, and with
\* fetchAllPages the start of the loop on its response.
FetchAllPages(t) ==
    /\ t.alias \in tools
    /\ toUpperCase(t.method) = "GET"
    /\ pager.at = "off"
    /\ sent' = sent \cup {toUpperCase(t.method)}
    /\ \E fetchAllPages \in BOOLEAN, raw \in BOOLEAN, kind \in PageKinds, n \in 0..MaxPageItems :
         LET env == Envelope(raw, kind, n)
             start == [NoPager EXCEPT !.raw = raw, !.first = Items(env)]
             pg == [start EXCEPT !.allItems = Items(env), !.link = env.link, !.pageCount = 1]
         IN pager' = IF ~fetchAllPages THEN Returns(start, "unpaged", start.first)
                     ELSE IF ~env.parses THEN Returns(start, "thrown", start.first)
                     ELSE IF pg.link = "none" THEN Returns(pg, "end", pg.allItems)
                     ELSE [pg EXCEPT !.at = "loop"]
    /\ UNCHANGED <<storeVars, engVars, readOnly, tools, deadline>>

\* One round of while (nextLink): new URL(nextLink), the follow-up request,
\* and what the loop does with its response.
NextPage ==
    /\ pager.at = "loop"
    /\ IF pager.link = "bad"
       THEN /\ pager' = Returns(pager, "thrown", pager.first)
            /\ UNCHANGED sent
       ELSE /\ sent' = sent \cup {"GET"}
            /\ \E kind \in PageKinds, n \in 0..MaxPageItems :
                 LET env == Envelope(pager.raw, kind, n)
                     pg == [pager EXCEPT !.requests = @ + 1]
                     nx == [pg EXCEPT !.allItems = @ + Items(env), !.link = env.link,
                                      !.pageCount = @ + 1]
                 IN pager' = IF ~env.parses THEN Returns(pg, "thrown", pg.first)
                             ELSE IF capped(nx.pageCount) THEN Returns(nx, "cap", nx.allItems)
                             ELSE IF nx.link = "none" THEN Returns(nx, "end", nx.allItems)
                             ELSE nx
    /\ UNCHANGED <<storeVars, engVars, readOnly, tools, deadline>>

\* execute-m365-code is called: its handler calls executeM365Code.
ExecuteCodeTool(i) ==
    /\ "execute-m365-code" \in tools
    /\ EStart(i)

\* ----------------------------------------------------------------- specs

Next ==
    \E p \in Procs :
        \/ CreateSkill(p) \/ UpdateSkill(p) \/ DeleteSkill(p) \/ ExecuteSkill(p)
        \/ IncrementUsage(p) \/ GetSkill(p) \/ ListSkills(p)
        \/ ListDir(p) \/ ListRead(p) \/ GetRead(p) \/ UpdGet(p) \/ DelGet(p)
        \/ DelUnlink(p) \/ ExecGet(p) \/ EngineReturn(p) \/ IncGet(p)
        \/ SaveOpen(p) \/ SaveWrite(p) \/ SaveFail(p)

Spec == Init /\ [][Next]_vars

\* incrementUsage and get alone, called concurrently.
UsageNext ==
    \E p \in Procs :
        \/ IncrementUsage(p) \/ GetSkill(p) \/ IncGet(p) \/ GetRead(p)
        \/ SaveOpen(p) \/ SaveWrite(p) \/ SaveFail(p)

UsageSpec == Init /\ [][UsageNext]_vars

\* update-m365-skill and incrementUsage called concurrently while time passes.
StorageNext ==
    \/ Tick
    \/ \E p \in Procs :
          \/ UpdateSkill(p) \/ IncrementUsage(p) \/ UpdGet(p) \/ IncGet(p)
          \/ SaveOpen(p) \/ SaveWrite(p) \/ SaveFail(p)

StorageSpec == Init /\ [][StorageNext]_vars

\* SkillStorage.save and get called directly and concurrently while time
\* passes.
SaveNext ==
    \/ Tick
    \/ \E p \in Procs :
          \/ ApiSave(p) \/ GetSkill(p) \/ GetRead(p)
          \/ SaveOpen(p) \/ SaveWrite(p) \/ SaveFail(p)

SaveSpec == Init /\ [][SaveNext]_vars

\* loadBuiltinSkills called again and again on a directory that starts empty.
SeedNext ==
    \/ Tick
    \/ \E p \in Procs :
          SeedStart(p) \/ SeedCheck(p) \/ SaveOpen(p) \/ SeedWrite(p) \/ SeedFail(p)

SeedSpec == SeedInit /\ [][SeedNext]_vars

\* execute-m365-skill alone, called concurrently.
ExecNext ==
    \E p \in Procs :
        \/ ExecuteSkill(p) \/ ExecGet(p) \/ ListDir(p) \/ ListRead(p)
        \/ EngineReturn(p) \/ IncGet(p)
        \/ SaveOpen(p) \/ SaveWrite(p) \/ SaveFail(p)

ExecSpec == Init /\ [][ExecNext]_vars

\* The execution engine and the capability facade.
EngineNext ==
    \E i \in Invs :
        \/ EStart(i) \/ ECompile(i) \/ ECompiled(i) \/ EStep(i)
        \/ EVmTimeout(i) \/ ECallResolve(i) \/ ETimerFire(i)

EngineSpec == Init /\ [][EngineNext]_vars

\* The tools of registerGraphTools that reach the external API client.
ReadOnlyNext ==
    \/ \E t \in Endpoints : EndpointTool(t)
    \/ \E i \in Invs :
          \/ ExecuteCodeTool(i) \/ ECompile(i) \/ ECompiled(i) \/ EStep(i)
          \/ EVmTimeout(i) \/ ECallResolve(i) \/ ETimerFire(i)

ReadOnlySpec == ReadOnlyInit /\ [][ReadOnlyNext]_vars

\* validateCode called on every text.
ValidateNext == ComposeCode \/ ValidateCode

ValidateSpec == Init /\ [][ValidateNext]_vars

\* list(filters) called again and again on a directory at rest.
ListNext == \E p \in Procs : ListFiltered(p) \/ ListDir(p) \/ ListRead(p)

ListSpec == ListInit /\ [][ListNext]_vars

\* The execute tools called with every timeout parameter.
TimeoutNext == ExecuteWithTimeout

TimeoutSpec == Init /\ [][TimeoutNext]_vars

\* GET endpoint tools called with fetchAllPages; every request is answered.
PageNext == (\E t \in Endpoints : FetchAllPages(t)) \/ NextPage

PageSpec == Init /\ [][PageNext]_vars /\ WF_vars(NextPage)

\* Node runs every callback that is ready: the engine takes a step whenever
\* one is possible.
FairEngineSpec == EngineSpec /\ WF_vars(EngineNext)

\* ------------------------------------------------------------ properties

\* A handler that holds a copy of skill id which it is about to write.
Saving(id) == \E p \in Procs : pc[p] \in {"open", "write"} /\ skill[p].id = id

\* C1: once n incrementUsage(id) calls on an existing skill have completed,
\* in any interleaving of their load and save steps, the persisted
\* usageCount is n higher than before (it starts at 0): no increment is lost.
C1_NoLostIncrement ==
    \A id \in IdSpace :
        (IsDoc(files[id]) /\ ~Saving(id)) => files[id].usageCount = incDone[id]

\* C2: a persisted usageCount is a non-negative integer that never
\* decreases and changes only as the effect of incrementUsage, which raises
\* it by one; update-m365-skill leaves it unchanged.
C2_UsageOnlyIncrements ==
    [][\A id \in IdSpace :
          /\ last'[id] \in Nat
          /\ last'[id] # last[id] =>
                /\ last'[id] = last[id] + 1
                /\ \E p \in Procs : /\ pc[p] = "write"
                                    /\ skill[p].id = id
                                    /\ arg[p].op \in {"increment", "execute"}]_vars

\* C3: a reader (get, list) running concurrently with a save sees the
\* complete old or the complete new document, never a partial one, and a
\* save that fails leaves the previously persisted document in place.
C3_AtomicSave ==
    \A p \in Procs :
        /\ res[p].op = "get" => res[p].seen # Partial
        /\ res[p].op = "list" => ~res[p].skipped
        /\ res[p].status = "storage-error" => IsDoc(res[p].left)

\* C8: delete-m365-skill on a built-in skill is refused and the record stays
\* in the store, whatever the tools do; on a non-builtin skill it removes
\* the record, so that get(id) then finds nothing.
C8_BuiltinStays ==
    /\ files[BuiltinId] # Absent
    /\ \A p \in Procs :
          /\ res[p].op = "delete" /\ res[p].status = "ok" => res[p].id # BuiltinId
          /\ res[p].op = "delete" /\ res[p].status = "refused" => res[p].id = BuiltinId

C8_DeleteRemoves ==
    \A p \in Procs :
        (pc[p] = "unlink" /\ res'[p].op = "delete" /\ res'[p].status = "ok")
            => (files[arg[p].id] # Absent /\ files'[arg[p].id] = Absent)

C8_DeleteProtection == []C8_BuiltinStays /\ [][C8_DeleteRemoves]_vars

\* C8 witness: one delete was refused for the built-in skill, which is still
\* stored, and one delete removed the non-builtin skill.
C8_Witness ==
    /\ IsDoc(files[BuiltinId])
    /\ files[OldId] = Absent
    /\ \E p, q \in Procs :
          /\ res[p] = [op |-> "delete", status |-> "refused", id |-> BuiltinId]
          /\ res[q] = [op |-> "delete", status |-> "ok", id |-> OldId]

\* C9: the executor increments usageCount only after a successful run: a
\* failed, timed-out or unresolved execution writes nothing, and the save of
\* a successful execution raises the persisted usageCount by exactly 1.
C9_IncrementOnReturn ==
    [][\A p \in Procs :
          /\ (pc[p] = "run" /\ pc'[p] = "i_get") => res[p] = NoRes
          /\ (arg[p].op = "execute" /\ res'[p].op = "execute"
                  /\ res'[p].status # "completed") => last' = last
          /\ (arg[p].op = "execute" /\ pc[p] = "write" /\ res'[p].op = "execute"
                  /\ res'[p].status = "completed")
                => last'[arg[p].id] = last[arg[p].id] + 1]_vars

\* The code keys whose text holds a deny-listed pattern, with the patterns.
DenyListed == {"evil", "exit"}
ViolatedPatterns(c) == IF c = "evil" THEN {1} ELSE IF c = "exit" THEN {7} ELSE {}

\* C10: every skill persisted through create-m365-skill or update-m365-skill
\* has code without deny-listed pattern; a create, or an update that changes
\* code, with such code is rejected with the violated patterns and leaves
\* the store unchanged.
C10_StoredCodeValid ==
    \A id \in IdSpace : IsDoc(files[id]) => files[id].code \notin DenyListed

C10_Rejects ==
    \A p \in Procs :
        /\ (pc[p] = "idle" /\ arg'[p].op = "create") => arg'[p].code \notin DenyListed
        /\ (pc[p] = "u_get" /\ pc'[p] # "u_get" /\ arg[p].code \in DenyListed
                /\ IsDoc(files[arg[p].id]))
              => /\ res'[p] = [op |-> "update", status |-> "invalid-code",
                               errors |-> ViolatedPatterns(arg[p].code)]
                 /\ files' = files
        /\ (res'[p] # res[p] /\ res'[p].status = "invalid-code")
              => /\ files' = files
                 /\ res'[p].errors # {}

C10_OnlyValidCodePersisted == []C10_StoredCodeValid /\ [][C10_Rejects]_vars

\* C10 witness: an update with deny-listed code was rejected with its
\* pattern while another update changed the stored code.
C10_Witness ==
    /\ files[OldId] = Doc(OldId, "alpha", "ret2", 0, FALSE)
    /\ \E p \in Procs :
          res[p] = [op |-> "update", status |-> "invalid-code", errors |-> {1}]

\* ---------------------------------------------- execution engine properties

Started(i) == eng[i].state \in {"created", "compiling", "running"}

\* C4: every invocation of the execution engine terminates: whatever the
\* script, an invocation that has started ends, completed, failed or timed
\* out; it never hangs.
C4_EveryInvocationTerminates ==
    \A i \in Invs : Started(i) ~> (eng[i].state \in Terminal)

\* The transitions of an invocation, as the claim draws them.
ClaimedTransitions ==
    {<<"idle", "created">>, <<"created", "compiling">>, <<"compiling", "running">>,
     <<"running", "completed">>, <<"running", "timed-out">>, <<"running", "failed">>}

\* C5 (as stated): an invocation goes created -> compiling -> running ->
\* {completed | timed-out | failed}; it reaches no terminal state but from
\* running, and leaves no terminal state.
C5_StateMachineAsStated ==
    [][\A i \in Invs : eng[i].state' # eng[i].state
            => <<eng[i].state, eng[i].state'>> \in ClaimedTransitions]_vars

\* C5 (amended): as above, but a script that does not compile fails from
\* compiling, without running; every terminal state is final and an
\* invocation ends in one of completed, timed-out, failed only.
C5_StateMachine ==
    [][\A i \in Invs : eng[i].state' # eng[i].state
            => \/ <<eng[i].state, eng[i].state'>> \in ClaimedTransitions
               \/ /\ <<eng[i].state, eng[i].state'>> = <<"compiling", "failed">>
                  /\ ~Compiles(eng[i].script)]_vars

\* One invocation has failed at compiling; another has ended and, after
\* that, the other party of its race (the timer, or the script's own end)
\* has come in as well.
C5_Witness ==
    \E i, j \in Invs : /\ eng[i].state = "failed"
                       /\ eng[i].result = "SyntaxError"
                       /\ eng[j].state \in Terminal
                       /\ eng[j].scr = "ended"
                       /\ eng[j].call.outcome = "returned"
                       /\ eng[j].timer = FALSE

\* What a script without capability calls returns in a process where no
\* other script has run.
RECURSIVE RunAlone(_, _, _, _, _)
RunAlone(prog, ip, acc, glob, own) ==
    CASE prog[ip] = "return"    -> acc
      [] prog[ip] = "setIntr"   -> RunAlone(prog, ip + 1, acc, glob, "one")
      [] prog[ip] = "getIntr"   -> RunAlone(prog, ip + 1, own, glob, own)
      [] prog[ip] = "setGlobal" -> RunAlone(prog, ip + 1, acc, "one", own)
      [] prog[ip] = "getGlobal" -> RunAlone(prog, ip + 1, glob, glob, own)
      [] OTHER                  -> "none"

CallFree == {"ret", "taint", "probe", "global", "gprobe"}

\* C6: invocations do not interfere: what a script without capability calls
\* returns is what it returns when it runs alone, whatever other scripts
\* have run before it or run beside it.
C6_NoInterference ==
    \A i \in Invs :
        eng[i].state = "completed" /\ eng[i].script \in CallFree
            => eng[i].result = RunAlone(Program(eng[i].script), 1,
                                        "undefined", "undefined", "undefined")

\* C7: a capability operation whose remote call failed throws into the
\* script; it never returns a value to it.
C7_FailureIsThrown ==
    \A i \in Invs : eng[i].call.remote = "fail" => eng[i].call.outcome = "thrown"

\* ------------------------------------------------- registration properties

\* The methods of all requests handed to the external API client so far,
\* by endpoint tools and by the capability operations scripts called.
Requests ==
    sent \cup { FacadeMethod(eng[i].call.op) : i \in { j \in Invs : eng[j].call.op # "none" } }

\* C11: in read-only mode no endpoint tool with a method other than GET is
\* registered, and no sequence of calls of the registered tools hands a
\* request other than a GET to the external API client.
C11_ReadOnlyNoMutation ==
    readOnly =>
        /\ \A t \in Endpoints : t.alias \in tools => toUpperCase(t.method) = "GET"
        /\ Requests \subseteq {"GET"}

\* ------------------------------------------------------ record properties

\* A handler calls save in this step (it goes on to writeFile).
CallsSave(p) == pc[p] # "open" /\ pc'[p] = "open"

\* C12: a skill's id is assigned once, at its first save, from an unused
\* identifier, and never changes: the record found under an id carries that
\* id, and the save of update, incrementUsage or execute writes the record
\* it loaded back under the id it was loaded by.
C12_IdInFile ==
    \A id \in IdSpace : IsDoc(files[id]) => files[id].id = id

C12_NoRekey ==
    \A p \in Procs :
        CallsSave(p) =>
            IF nextId' # nextId
            THEN skill'[p].id = nextId /\ files[nextId] = Absent
            ELSE /\ skill'[p].id \in IdSpace
                 /\ IsDoc(files[skill'[p].id])
                 /\ pc[p] \in {"u_get", "i_get"} => skill'[p].id = arg[p].id

C12_IdAssignedOnce == []C12_IdInFile /\ [][C12_NoRekey]_vars

\* C12 witness: the skill of the earlier session was renamed by an update
\* and counted by an increment, and is still the record under its id.
C12_Witness ==
    /\ IsDoc(files[OldId])
    /\ files[OldId].id = OldId
    /\ files[OldId].name = "beta"
    /\ files[OldId].usageCount = 1

\* The store-managed fields of a record.
ManagedKeys == {"id", "createdAt", "updatedAt", "usageCount", "isBuiltin"}

\* C13: createdAt is the clock reading of the first save and is never set
\* again: the save of update and of incrementUsage hands on the record it
\* loaded with id, createdAt and isBuiltin as loaded, usageCount as the
\* caller left it, and only updatedAt set anew; a record that is replaced
\* on disk, or is about to be, keeps its createdAt.
C13_SaveKeeps ==
    \A p \in Procs :
        CallsSave(p) =>
            IF nextId' # nextId
            THEN skill'[p].createdAt = now /\ skill'[p].usageCount = 0
            ELSE pc[p] \in {"u_get", "i_get"} =>
                    LET old == files[arg[p].id]
                        new == skill'[p]
                    IN  /\ IsDoc(old)
                        /\ new.createdAt = old.createdAt
                        /\ new.id = old.id
                        /\ new.isBuiltin = old.isBuiltin
                        /\ new.usageCount =
                              IF pc[p] = "i_get" THEN old.usageCount + 1 ELSE old.usageCount
                        /\ new.updatedAt = now
                        /\ DOMAIN new \ ManagedKeys = DOMAIN old \ ManagedKeys

C13_OnDisk ==
    \A id \in IdSpace :
        IsDoc(files[id]) /\ IsDoc(files'[id]) => files'[id].createdAt = files[id].createdAt

C13_Pending ==
    \A p \in Procs :
        (pc[p] \in {"open", "write"} /\ skill[p].id \in IdSpace /\ IsDoc(files[skill[p].id]))
            => skill[p].createdAt = files[skill[p].id].createdAt

C13_CreatedAtSetOnce == []C13_Pending /\ [][C13_SaveKeeps /\ C13_OnDisk]_vars

\* C13 witness: a record created at time 0 was saved again after the clock
\* had advanced.
C13_Witness ==
    /\ IsDoc(files[OldId])
    /\ files[OldId].createdAt = 0
    /\ files[OldId].updatedAt > 0

\* C14: every persisted skill has updatedAt >= createdAt, and the writes to
\* one skill's file never take its updatedAt backwards.
C14_Ordered ==
    \A id \in IdSpace : IsDoc(files[id]) => files[id].updatedAt >= files[id].createdAt

C14_Forward == \A id \in IdSpace : lastAt'[id] >= lastAt[id]

C14_UpdatedAtMonotone == []C14_Ordered /\ [][C14_Forward]_vars

\* A result of save for a record that came without an id.
Created(r) == r.op = "save" /\ r.status = "ok" /\ Field(r.input, "id") = NoId

\* What save returned for a new record, but for the two timestamps.
C15_Fresh(r) ==
    /\ r.rec.id # NoId
    /\ r.rec.id = r.id
    /\ r.rec.usageCount = 0
    /\ r.rec.isBuiltin = IF "isBuiltin" \in DOMAIN r.input THEN r.input.isBuiltin ELSE FALSE

\* C15 as stated: the record save returns for a valid new skill has a
\* non-empty id, createdAt equal to updatedAt, usageCount 0 and isBuiltin
\* false unless the caller set it.
C15_CreatedEqualsUpdated ==
    \A p \in Procs :
        Created(res[p]) => C15_Fresh(res[p]) /\ res[p].rec.createdAt = res[p].rec.updatedAt

\* C15, amended: the record save returns for a valid new skill has a
\* non-empty id, createdAt not later than updatedAt (they are two readings
\* of the clock, equal unless it advanced between them), usageCount 0 and
\* isBuiltin false unless the caller set it.
C15_CreatedNotAfterUpdated ==
    \A p \in Procs :
        Created(res[p]) => C15_Fresh(res[p]) /\ res[p].rec.createdAt <= res[p].rec.updatedAt

\* C15 witness: save returned a new record the caller had marked builtin,
\* stamped across a tick of the clock.
C15_Witness ==
    \E p \in Procs :
        /\ Created(res[p])
        /\ res[p].rec.isBuiltin
        /\ res[p].rec.createdAt < res[p].rec.updatedAt

\* get(id) returned r after save had returned s for the same id, with no
\* write to the file in between.
ReadsBack(r, s) ==
    /\ s.op = "save" /\ s.status = "ok"
    /\ r.op = "get" /\ r.id = s.id /\ r.ver = s.ver

\* C16: get(id), after a save has completed and with no write in between,
\* returns a record equal in every field to the one save returned.
C16_RoundTrip ==
    \A p, q \in Procs :
        ReadsBack(res[q], res[p]) =>
            /\ IsDoc(res[q].seen)
            /\ \A k \in DOMAIN res[p].rec \cup DOMAIN res[q].seen :
                   Field(res[q].seen, k) = Field(res[p].rec, k)

\* C16 witness: a record saved with tags undefined, a key JSON.stringify
\* leaves out of the file, was read back.
C16_Witness ==
    \E p, q \in Procs :
        /\ ReadsBack(res[q], res[p])
        /\ "tags" \in DOMAIN res[p].rec
        /\ "tags" \notin DOMAIN res[q].seen

\* One of name, description, code, category is missing from s or empty.
MissingField(s) ==
    \/ \E k \in {"name", "description", "category"} : Field(s, k) \in {"", "undefined"}
    \/ Field(s, "code") \in {"empty", "undefined"}

\* C17: save of a skill in which name, description, code or category is
\* missing or empty fails with the validation error and changes nothing in
\* the store: it never goes on to writeFile, the call that returns the
\* error leaves every file as it was, and no record lacking one of the
\* four is ever found in the store.
C17_Refused ==
    \A p \in Procs :
        /\ (pc[p] = "idle" /\ pc'[p] = "open" /\ arg'[p].op = "save")
              => ~MissingField(arg'[p].input)
        /\ (Free(p) /\ ops' = ops + 1 /\ pc'[p] = "idle" /\ res'[p].op = "save")
              => /\ res'[p].status = "missing-fields"
                 /\ MissingField(res'[p].input)
                 /\ files' = files

C17_StoredComplete ==
    \A id \in IdSpace : IsDoc(files[id]) => ~MissingField(files[id])

C17_IncompleteRejected == []C17_StoredComplete /\ [][C17_Refused]_vars

\* C17 witness: a complete record was saved, and save refused a record
\* whose category was empty.
C17_Witness ==
    /\ \E p \in Procs :
          /\ res[p].op = "save"
          /\ res[p].status = "missing-fields"
          /\ Field(res[p].input, "category") = ""
    /\ \E id \in IdSpace : IsDoc(files[id]) /\ files[id].name = "gamma"

\* ----------------------------------------------------- seeding properties

C19_NoTwoAlike ==
    \A i, j \in IdSpace :
        (i # j /\ IsDoc(files[i]) /\ IsDoc(files[j])) => files[i].name # files[j].name

C19_DuplicateRefused ==
    \A p \in Procs :
        (arg[p].op = "create" /\ pc'[p] = "idle" /\ res'[p].status = "exists")
            => files' = files

C19_NamesUnique == []C19_NoTwoAlike /\ [][C19_DuplicateRefused]_vars

\* ---------------------------------------------------- resolution properties

\* The handler p is running execute-m365-skill.
Executing(p) == arg[p].op = "execute"

\* C20: execute-m365-skill resolves its argument as an identifier first and
\* as a name only when no record has that identifier: a record found under
\* the identifier is the one that runs, whatever records have the string as
\* their name; the name is looked up only after get found no file, and then
\* a record of that name runs; when neither finds a record the call returns
\* not-found from the lookup, without having run a script and without a
\* change to any file or usage count.
C20_Resolved ==
    \A p \in Procs :
        Executing(p) =>
            /\ (pc[p] = "x_get" /\ pc'[p] # "x_get" /\ arg[p].by = "id"
                   /\ IsDoc(files[arg[p].id]))
                  => pc'[p] = "run" /\ skill'[p] = files[arg[p].id]
            /\ (pc[p] = "x_get" /\ pc'[p] = "readdir")
                  => arg[p].by = "name" \/ files[arg[p].id] = Absent
            /\ (pc[p] \in {"readdir", "listread"} /\ pc'[p] = "run")
                  => IsDoc(skill'[p]) /\ skill'[p].name = arg[p].name
            /\ (pc'[p] = "idle" /\ res'[p].status = "not-found")
                  => /\ pc[p] \in {"readdir", "listread"}
                     /\ files' = files
                     /\ hist' = hist
                     /\ engVars' = engVars

C20_IdBeforeName == [][C20_Resolved]_vars

\* C20 witness: a string that is the identifier of one record and the name
\* of another was resolved to the record with that identifier, which ran.
C20_Witness ==
    /\ \E id \in IdSpace : IsDoc(files[id]) /\ files[id].name = IdString(OldId)
    /\ \E p \in Procs :
          /\ Executing(p)
          /\ pc[p] = "run"
          /\ arg[p].name = IdString(OldId)
          /\ skill[p].id = OldId

\* ----------------------------------------------------- reporting properties

\* What the handlers report of a failed call of executeM365Code: the error
\* field of their result is the message of the Error thrown.
Reported(e) == e.result

\* The messages of the two deadline errors: the timer of the race and the
\* timeout of runInContext.
TimeoutMessages == {"Execution timeout", "Script execution timed out"}

\* C21: a deadline expiry is reported as a timeout, apart from an execution
\* failure: no invocation whose script threw or whose capability call failed
\* is reported as timed out, and none that ran into its deadline is reported
\* as an execution failure.
C21_TimeoutDistinct ==
    \A i \in Invs :
        /\ eng[i].state = "failed" => Reported(eng[i]) \notin TimeoutMessages
        /\ eng[i].state = "timed-out" => Reported(eng[i]) \in TimeoutMessages

\* ------------------------------------------------------- deadline properties

\* C22: the deadline handed to the engine is 30000 ms when the caller gives
\* none and never exceeds 60000 ms, for execute-m365-code and for
\* execute-m365-skill, whatever timeout the caller passes.
C22_DeadlineBounded ==
    deadline.tool # "none" =>
        /\ ~deadline.input.given => deadline.handed = DefaultTimeout
        /\ deadline.handed <= MaxTimeout

\* ---------------------------------------------------------- list properties

\* The parsed skills of the skills directory.
Persisted == { files[i] : i \in IdSpace } \ {Absent, Partial}

\* The entries of a list result.
Entries(r) == { r.skills[i] : i \in 1..Len(r.skills) }

\* One filter of list(filters), as it reads: exact match of category, of
\* author and of isPublic, exact match of isBuiltin with a missing flag
\* counted as false, one tag in common.
Satisfies(d, f, k) ==
    CASE k = "category"  -> Field(d, "category") = f.category
      [] k = "author"    -> Field(d, "author") = f.author
      [] k = "isPublic"  -> "isPublic" \in DOMAIN d /\ d.isPublic = f.isPublic
      [] k = "isBuiltin" -> ("isBuiltin" \in DOMAIN d /\ d.isBuiltin) = f.isBuiltin
      [] k = "tags"      -> f.tags \cap TagList(Field(d, "tags")) # {}
      [] OTHER           -> TRUE

\* The filters a call passes.
Passed(f) == DOMAIN f \ {"kind"}

\* The filters a call passes that list() looks at: a category or an author
\* that is the empty string is passed over.
Supplied(f) == { k \in Passed(f) : ~(k \in {"category", "author"} /\ f[k] = "") }

\* The finished calls of list().
Listings == { p \in Procs : res[p].op = "list" /\ res[p].status = "ok" }

\* C23 as stated: list(filters) returns exactly the persisted records that
\* satisfy every filter passed, each once.
C23_ListExactPassed ==
    \A p \in Listings :
        /\ Entries(res[p]) =
               { d \in Persisted : \A k \in Passed(res[p].filters) : Satisfies(d, res[p].filters, k) }
        /\ Len(res[p].skills) = Cardinality(Entries(res[p]))

\* C23: list(filters) returns exactly the persisted records that satisfy
\* every supplied filter at once, each once, where a category or an author
\* filter counts as supplied when it is not the empty string: no matching
\* record is left out and no other record is included.
C23_ListExact ==
    \A p \in Listings :
        /\ Entries(res[p]) =
               { d \in Persisted : \A k \in Supplied(res[p].filters) : Satisfies(d, res[p].filters, k) }
        /\ Len(res[p].skills) = Cardinality(Entries(res[p]))

\* A call with three filters that returned one record and left out another.
C23_Witness ==
    \E p \in Listings :
        /\ {"category", "isBuiltin", "tags"} \subseteq Supplied(res[p].filters)
        /\ Len(res[p].skills) >= 1
        /\ Cardinality(Persisted) > Len(res[p].skills)

\* C24: the list returned by list(), with or without filters, is ordered by
\* usageCount descending: of two adjacent entries the earlier one's
\* usageCount is greater than or equal to the later one's.
C24_Descending ==
    \A p \in Listings :
        \A i \in 1..(Len(res[p].skills) - 1) :
            res[p].skills[i].usageCount >= res[p].skills[i + 1].usageCount

\* A list in which a file read later comes first, for its greater count, and
\* a list of a filtered call with two entries.
C24_Witness ==
    /\ \E p \in Listings :
           /\ Len(res[p].skills) >= 2
           /\ res[p].skills[1].id > res[p].skills[2].id
           /\ res[p].skills[1].usageCount > res[p].skills[2].usageCount
           /\ Supplied(res[p].filters) # {}

\* ------------------------------------------------------ absence properties

\* The fs call of get, delete or incrementUsage that finds no file of the
\* identifier, made by p in this step.
FindsNone(p, at) ==
    /\ pc[p] = at
    /\ pc'[p] = "idle"
    /\ arg[p].id \in IdSpace
    /\ files[arg[p].id] = Absent

\* C25: get, delete and incrementUsage on an identifier that has no persisted
\* record report the absence without an error and leave the store as it is:
\* get returns not-found, delete returns false, also when it is repeated,
\* and incrementUsage does nothing and creates no record.
C25_AbsenceQuiet ==
    [][\A p \in Procs :
          /\ FindsNone(p, "g_get") =>
                 res'[p].status = "ok" /\ res'[p].seen = Absent /\ files' = files
          /\ FindsNone(p, "unlink") =>
                 res'[p].status = "not-found" /\ files' = files
          /\ FindsNone(p, "i_get") =>
                 res'[p].status \in {"ok", "completed"} /\ ~res'[p].wrote /\ files' = files]_vars

\* A delete that returned true and a later delete of the same identifier
\* that returned false.
C25_Witness ==
    \E p, q \in Procs :
        /\ res[p].op = "delete" /\ res[p].status = "ok"
        /\ res[q].op = "delete" /\ res[q].status = "not-found"
        /\ res[p].id = res[q].id
        /\ files[res[q].id] = Absent

\* --------------------------------------------------- validation properties

\* The pattern occurs in the text: at some offset every character of the
\* pattern is the character of the text.
Occurs(pat, text) ==
    \E i \in 0..Len(text) :
        \A j \in 1..Len(pat) : i + j <= Len(text) /\ text[i + j] = pat[j]

\* The deny-listed patterns that occur in the text.
Occurring(text) == { k \in 1..Len(forbidden) : Occurs(forbidden[k], text) }

\* C26: validateCode(code) reports valid = true exactly when code contains
\* none of the eight deny-listed substrings, and errors holds exactly one
\* entry naming each pattern that occurs.
C26_ValidateExact ==
    res[1].op = "validate" =>
        /\ res[1].valid <=> Occurring(res[1].code) = {}
        /\ { res[1].errors[i] : i \in 1..Len(res[1].errors) } = Occurring(res[1].code)
        /\ Len(res[1].errors) = Cardinality(Occurring(res[1].code))

\* A text that holds two of the patterns: it is invalid with two entries.
C26_Witness ==
    /\ res[1].op = "validate"
    /\ res[1].code = forbidden[7] \o forbidden[1]
    /\ ~res[1].valid
    /\ res[1].errors = <<1, 7>>

\* ---------------------------------------------------------- race properties

\* The capability call of invocation i is in flight and the thread is free.
InFlight(i) == eng[i].scr = "call" /\ busy = 0

\* C27: the outcome of an invocation is decided once, by whichever of the
\* script's result and the deadline timer comes first.  Once an outcome such
\* as timed-out is reported, a later end of the script or of its in-flight
\* capability call neither changes it nor reports another; the in-flight
\* remote call is not cancelled by the timeout: it can still end.
C27_Reported ==
    \A i \in Invs :
        eng[i].state \in Terminal =>
            /\ eng'[i].state = eng[i].state
            /\ eng'[i].result = eng[i].result

C27_NotCancelled ==
    \A i \in Invs :
        (eng[i].state = "timed-out" /\ InFlight(i)) => ENABLED ECallResolve(i)

C27_DecidedOnce == []C27_NotCancelled /\ [][C27_Reported]_vars

\* An invocation reported as timed out whose capability call went through
\* to the remote side afterwards and whose script then ran to its return.
C27_Witness ==
    \E i \in Invs :
        /\ eng[i].script = "list"
        /\ eng[i].state = "timed-out"
        /\ eng[i].result = "Execution timeout"
        /\ eng[i].call.remote = "ok"
        /\ eng[i].call.outcome = "returned"
        /\ eng[i].scr = "ended"

\* -------------------------------------------------------- delete properties

\* C28: a deleted skill stays deleted: once delete(id) has returned true,
\* get(id) finds no record in any later state, also when incrementUsage,
\* execute or update on the same identifier had loaded the record before the
\* delete and saves it after.
C28_StaysDeleted ==
    \A q \in Procs :
        (res[q].op = "delete" /\ res[q].status = "ok") => files[res[q].id] = Absent

\* ------------------------------------------------- reported usage properties

\* C29: the usageCount reported in the result of execute-m365-skill is the
\* persisted usageCount right after that run's increment, also when
\* executions overlap or the skill is updated or deleted while the script
\* runs.
C29_ReportedIsPersisted ==
    [][\A p \in Procs :
          (arg[p].op = "execute" /\ res'[p] # res[p] /\ res'[p].status = "completed")
              => /\ IsDoc(files'[res'[p].id])
                 /\ files'[res'[p].id].usageCount = res'[p].usageCount]_vars

\* ---------------------------------------------------- pagination properties

\* C30: with fetchAllPages = true the pagination loop ends for every
\* sequence of server responses, also for a chain of next links that never
\* ends or goes round: it makes at most 100 follow-up page requests and then
\* returns the items collected so far.
C30_Bounded ==
    /\ pager.requests <= MaxPages
    /\ pager.ended = "cap" => pager.requests = MaxPages
    /\ pager.ended \in {"cap", "end"} => pager.returned = pager.allItems

====
